---- MODULE Spec2Model ----
(***************************************************************************)
(* State-machine model of walletconnect-sequential-tx: the scheduling      *)
(* queue (src/src/queue/TransactionQueue.ts), the execution engine and the *)
(* handler facade (src/unnamed/part_000) and the retry policy              *)
(* (src/src/types.ts, class RetryManager).                                 *)
(***************************************************************************)
EXTENDS Integers, Sequences, FiniteSets, Bags, TLC

(***************************************************************************)
(* Bounds of the model.                                                    *)
(***************************************************************************)
\* number of add() calls in one run of the queue, priority and attempts
\* specifications
MaxAdds == 3
\* number of other queue calls in one run of the queue and priority
\* specifications
MaxOps == 2
\* calls other than add made on one queue (execution-order specification)
MaxOrderOps == 4

\* identifiers callers supply in config.id
Ids == {"A", "B", "C"}
\* "no record": what getNext returns as undefined
NoId == "-"
\* values of options.priority (0 is also what an absent priority becomes)
QueuePriorities == {0, 1}
\* the priorities of the priority-ordering test (1, 10, 5)
PrioritySet == {1, 5, 10}
\* values of options.dependencies: none, or one of two identifiers
DepChoices == {{}, {"A"}, {"B"}}
\* number of addTransaction() calls and of other handler calls in one run of
\* the handler specification
HandlerAdds == 2
HandlerOps == 1
\* number of provider calls that fail in one run of the handler specification
MaxFailures == 1
\* start() and stop() calls made on one executor (run-loop specification)
MaxToggles == 2
\* number of provider calls that fail in one run of the attempts specification
MaxAttemptFailures == 2
\* the provider's pending transaction count in the preparation specification
MaxNonce == 3
\* Math.random() takes the values k / JitterSteps, k in 0 .. JitterSteps - 1
JitterSteps == 4

(***************************************************************************)
(* enum TransactionStatus                                                  *)
(***************************************************************************)
PENDING    == "PENDING"
QUEUED     == "QUEUED"
EXECUTING  == "EXECUTING"
CONFIRMING == "CONFIRMING"
CONFIRMED  == "CONFIRMED"
FAILED     == "FAILED"
CANCELLED  == "CANCELLED"
REPLACED   == "REPLACED"
TransactionStatus ==
  {PENDING, QUEUED, EXECUTING, CONFIRMING, CONFIRMED, FAILED, CANCELLED, REPLACED}

\* options.defaultMaxRetries || 3
defaultMaxRetries == 3

VARIABLES
  queue,              \* TransactionQueue.queue: id -> record (contents of the Map)
  queueKeys,          \* insertion order of the keys of TransactionQueue.queue
  executionOrder,     \* TransactionQueue.executionOrder: sequence of ids
  dependencyGraph,    \* TransactionQueue.dependencyGraph: id -> set of ids
  now,                \* logical clock read by new Date() in add
  maxConcurrent,      \* TransactionExecutor.options.maxConcurrent
  isRunning,          \* TransactionExecutor.isRunning
  loops,              \* number of processQueue() calls suspended in wait()
  currentlyExecuting, \* keys of TransactionExecutor.currentlyExecuting
  attempts,           \* bag of executeTransaction() calls that have not returned
  nonceTracker,       \* TransactionExecutor.nonceTracker entry of the account
  txCount,            \* provider: pending transaction count of the account
  failures,           \* provider: number of calls that have failed so far
  notified,           \* emitter: per record, notifications emitted so far
  reached,            \* ids whose record has been CONFIRMED or CANCELLED
  nops,               \* number of calls other than add made so far
  ret,                \* the last call and what it returned
  retryCall           \* RetryManager, prepareTransaction: the call under study
                      \* and its result

queueVars == <<queue, queueKeys, executionOrder, dependencyGraph>>
executorVars ==
  <<maxConcurrent, isRunning, loops, currentlyExecuting, attempts, nonceTracker,
    txCount, failures, notified, reached>>
vars ==
  <<queue, queueKeys, executionOrder, dependencyGraph, now, maxConcurrent,
    isRunning, loops, currentlyExecuting, attempts, nonceTracker, txCount,
    failures, notified, reached, nops, ret, retryCall>>

(***************************************************************************)
(* JavaScript Map and Array helpers.                                       *)
(***************************************************************************)
EmptyMap == [k \in {} |-> NoId]
MapSet(m, k, v) == [x \in (DOMAIN m) \cup {k} |-> IF x = k THEN v ELSE m[x]]
MapDelete(m, k) == [x \in (DOMAIN m) \ {k} |-> m[x]]

\* Array.prototype.filter(x => x !== id)
RECURSIVE FilterOut(_, _)
FilterOut(s, id) ==
  IF s = <<>> THEN <<>>
  ELSE IF Head(s) = id THEN FilterOut(Tail(s), id)
       ELSE <<Head(s)>> \o FilterOut(Tail(s), id)

\* Array.prototype.filter(x => keep.has(x))
RECURSIVE FilterIn(_, _)
FilterIn(s, keep) ==
  IF s = <<>> THEN <<>>
  ELSE IF Head(s) \in keep THEN <<Head(s)>> \o FilterIn(Tail(s), keep)
       ELSE FilterIn(Tail(s), keep)

\* Array.prototype.splice(i, 0, x), i counted from 0
Splice(s, i, x) == SubSeq(s, 1, i) \o <<x>> \o SubSeq(s, i + 1, Len(s))

Call(op, id, res) == [op |-> op, id |-> id, res |-> res]

(***************************************************************************)
(* TransactionQueue                                                        *)
(***************************************************************************)
\* insertIntoExecutionOrder: index of the first entry whose record has a
\* strictly lower priority, else the end; q is the record table at the call
RECURSIVE insertIndex(_, _, _, _)
insertIndex(order, q, priority, i) ==
  IF i > Len(order) THEN Len(order)
  ELSE IF order[i] \in DOMAIN q /\ q[order[i]].priority < priority THEN i - 1
       ELSE insertIndex(order, q, priority, i + 1)

\* fault injection: the comparison of insertIntoExecutionOrder taken as <=, so
\* that a record is placed before the earlier records of its own priority
RECURSIVE insertIndexBeforeEqual(_, _, _, _)
insertIndexBeforeEqual(order, q, priority, i) ==
  IF i > Len(order) THEN Len(order)
  ELSE IF order[i] \in DOMAIN q /\ q[order[i]].priority <= priority THEN i - 1
       ELSE insertIndexBeforeEqual(order, q, priority, i + 1)

insertBeforeEqualPriority(order, q, id, priority) ==
  Splice(order, insertIndexBeforeEqual(order, q, priority, 1), id)

insertIntoExecutionOrder(order, q, id, priority) ==
  Splice(order, insertIndex(order, q, priority, 1), id)

\* fault injection: only a PENDING dependency blocks
blockedByPendingOnly(q, graph, id) ==
  IF id \notin DOMAIN graph \/ graph[id] = {} THEN FALSE
  ELSE \E depId \in graph[id] : depId \in DOMAIN q /\ q[depId].status = PENDING

\* fault injection: a FAILED dependency counts as satisfied
blockedUnlessFailed(q, graph, id) ==
  IF id \notin DOMAIN graph \/ graph[id] = {} THEN FALSE
  ELSE \E depId \in graph[id] :
         /\ depId \in DOMAIN q
         /\ q[depId].status # CONFIRMED
         /\ q[depId].status # CANCELLED
         /\ q[depId].status # FAILED

\* hasPendingDependencies(id)
hasPendingDependencies(q, graph, id) ==
  IF id \notin DOMAIN graph \/ graph[id] = {} THEN FALSE
  ELSE \E depId \in graph[id] :
         /\ depId \in DOMAIN q
         /\ q[depId].status # CONFIRMED
         /\ q[depId].status # CANCELLED

\* getNext(): the identifier of the record returned, NoId for undefined
RECURSIVE getNextFrom(_, _, _, _)
getNextFrom(q, order, graph, i) ==
  IF i > Len(order) THEN NoId
  ELSE LET id == order[i] IN
       IF id \notin DOMAIN q THEN getNextFrom(q, order, graph, i + 1)
       ELSE IF q[id].status # PENDING /\ q[id].status # QUEUED
            THEN getNextFrom(q, order, graph, i + 1)
       ELSE IF hasPendingDependencies(q, graph, id)
            THEN getNextFrom(q, order, graph, i + 1)
       ELSE id

getNext(q, order, graph) == getNextFrom(q, order, graph, 1)

\* add(config, options)
add(id, priority, dependencies, maxRetries) ==
  LET transaction ==
        [id           |-> id,
         status       |-> PENDING,
         priority     |-> priority,
         dependencies |-> dependencies,
         retryCount   |-> 0,
         maxRetries   |-> IF maxRetries = 0 THEN defaultMaxRetries ELSE maxRetries,
         createdAt    |-> now,
         executedAt   |-> FALSE,
         confirmedAt  |-> FALSE,
         error        |-> <<>>]
      q1 == MapSet(queue, id, transaction)
  IN /\ queue' = q1
     /\ queueKeys' = IF id \in DOMAIN queue THEN queueKeys ELSE Append(queueKeys, id)
     /\ dependencyGraph' =
          IF dependencies # {} THEN MapSet(dependencyGraph, id, dependencies)
          ELSE dependencyGraph
     /\ executionOrder' = insertIntoExecutionOrder(executionOrder, q1, id, priority)
     /\ now' = now + 1
     /\ ret' = Call("add", id, id)

\* fault injection: remove without the guard on EXECUTING and CONFIRMING
removeUnguarded(id) ==
  IF id \notin DOMAIN queue
  THEN /\ ret' = Call("remove", id, "false")
       /\ UNCHANGED queueVars
  ELSE /\ queue' = MapDelete(queue, id)
       /\ queueKeys' = FilterOut(queueKeys, id)
       /\ executionOrder' = FilterOut(executionOrder, id)
       /\ dependencyGraph' =
            [k \in (DOMAIN dependencyGraph) \ {id} |-> dependencyGraph[k] \ {id}]
       /\ ret' = Call("remove", id, "true")

\* remove(id)
remove(id) ==
  IF id \notin DOMAIN queue
  THEN /\ ret' = Call("remove", id, "false")
       /\ UNCHANGED queueVars
  ELSE IF queue[id].status = EXECUTING \/ queue[id].status = CONFIRMING
  THEN /\ ret' = Call("remove", id, "throw")
       /\ UNCHANGED queueVars
  ELSE /\ queue' = MapDelete(queue, id)
       /\ queueKeys' = FilterOut(queueKeys, id)
       /\ executionOrder' = FilterOut(executionOrder, id)
       /\ dependencyGraph' =
            [k \in (DOMAIN dependencyGraph) \ {id} |-> dependencyGraph[k] \ {id}]
       /\ ret' = Call("remove", id, "true")

\* fault injection: cancel without the test for CONFIRMED
cancelUnguarded(id) ==
  /\ UNCHANGED <<queueKeys, executionOrder, dependencyGraph>>
  /\ IF id \notin DOMAIN queue
     THEN /\ ret' = Call("cancel", id, "false")
          /\ UNCHANGED queue
     ELSE /\ queue' = [queue EXCEPT ![id].status = CANCELLED]
          /\ ret' = Call("cancel", id, "true")

\* cancel(id)
cancel(id) ==
  /\ UNCHANGED <<queueKeys, executionOrder, dependencyGraph>>
  /\ IF id \notin DOMAIN queue
     THEN /\ ret' = Call("cancel", id, "false")
          /\ UNCHANGED queue
     ELSE IF queue[id].status = CONFIRMED
     THEN /\ ret' = Call("cancel", id, "false")
          /\ UNCHANGED queue
     ELSE /\ queue' = [queue EXCEPT ![id].status = CANCELLED]
          /\ ret' = Call("cancel", id, "true")

\* the record table after updateStatus(id, status), id known
withStatus(q, id, status) ==
  [q EXCEPT ![id].status = status,
            ![id].executedAt = IF status = EXECUTING THEN TRUE ELSE @,
            ![id].confirmedAt = IF status = CONFIRMED THEN TRUE ELSE @]

\* updateStatus(id, status) applied to a record table (unknown id: no change)
setStatus(q, id, status) ==
  IF id \in DOMAIN q THEN withStatus(q, id, status) ELSE q

\* updateStatus(id, status)
updateStatus(id, status) ==
  /\ UNCHANGED <<queueKeys, executionOrder, dependencyGraph>>
  /\ queue' = setStatus(queue, id, status)
  /\ ret' = Call("updateStatus", id, IF id \in DOMAIN queue THEN "true" ELSE "false")

\* getExecuting(): the identifiers, in the Map's iteration order
getExecuting ==
  FilterIn(queueKeys,
           {id \in DOMAIN queue :
              queue[id].status = EXECUTING \/ queue[id].status = CONFIRMING})

\* clear()
clear ==
  LET executing == getExecuting
      kept == {executing[i] : i \in 1..Len(executing)}
  IN /\ queue' = [id \in kept |-> queue[id]]
     /\ queueKeys' = executing
     /\ executionOrder' = executing
     /\ dependencyGraph' = EmptyMap
     /\ ret' = Call("clear", NoId, "void")

\* reorder(id, newPriority)
reorder(id, newPriority) ==
  /\ UNCHANGED <<queueKeys, dependencyGraph>>
  /\ IF id \notin DOMAIN queue
     THEN /\ ret' = Call("reorder", id, "false")
          /\ UNCHANGED <<queue, executionOrder>>
     ELSE LET q1 == [queue EXCEPT ![id].priority = newPriority] IN
          /\ queue' = q1
          /\ executionOrder' =
               insertIntoExecutionOrder(FilterOut(executionOrder, id), q1, id, newPriority)
          /\ ret' = Call("reorder", id, "true")

\* fault injection: validateTransaction that counts the warning as an error
validateTransactionStrict(q, config) ==
  LET noPayload == config.data \in {"undefined", ""} /\ config.value \in {<<>>, <<0>>}
      errors == (IF config.to \in {"undefined", ""} THEN <<"to">> ELSE <<>>)
                \o (IF noPayload THEN <<"payload">> ELSE <<>>)
                \o (IF config.id \in DOMAIN q THEN <<"exists">> ELSE <<>>)
  IN [isValid |-> errors = <<>>, errors |-> errors, warnings |-> <<>>,
      estimatedGas |-> config.gasLimit, estimatedCost |-> <<>>]

\* validateTransaction(config): the result object. An optional string is
\* "undefined" when absent, an optional number <<>> when absent and <<n>>
\* otherwise; falsy is the test !v of JavaScript.
validateTransaction(q, config) ==
  LET falsyString(v) == v = "undefined" \/ v = ""
      falsyNumber(v) == v = <<>> \/ v = <<0>>
      errors == (IF falsyString(config.to) THEN <<"to">> ELSE <<>>)
                \o (IF ~falsyString(config.id) /\ config.id \in DOMAIN q
                    THEN <<"exists">> ELSE <<>>)
      warnings == IF falsyString(config.data) /\ falsyNumber(config.value)
                  THEN <<"payload">> ELSE <<>>
  IN [isValid      |-> Len(errors) = 0,
      errors       |-> errors,
      warnings     |-> warnings,
      estimatedGas |-> config.gasLimit,
      estimatedCost |->
        IF ~falsyNumber(config.gasLimit) /\ ~falsyNumber(config.gasPrice)
        THEN <<config.gasLimit[1] * config.gasPrice[1]>>
        ELSE <<>>]

(***************************************************************************)
(* RetryManager                                                            *)
(***************************************************************************)
EXPONENTIAL_BACKOFF == "EXPONENTIAL_BACKOFF"
LINEAR              == "LINEAR"
FIXED_DELAY         == "FIXED_DELAY"
NONE                == "NONE"
RetryStrategy == {EXPONENTIAL_BACKOFF, LINEAR, FIXED_DELAY, NONE}

\* defaults of the RetryManager constructor
DefaultRetries == 3
DefaultBaseDelay == 1000
DefaultMaxDelay == 30000
DefaultBackoffMultiplier == 2

\* texts a provider error may carry, as sequences of characters
Phrases ==
  << <<"N", "e", "t", "w", "o", "r", "k", " ", "t", "i", "m", "e", "o", "u", "t">>,
     <<"T", "o", "o", " ", "m", "a", "n", "y", " ", "r", "e", "q", "u", "e", "s", "t", "s", " ", "(", "4", "2", "9", ")">>,
     <<"N", "o", "n", "c", "e", " ", "t", "o", "o", " ", "l", "o", "w">>,
     <<"R", "e", "p", "l", "a", "c", "e", "m", "e", "n", "t", " ", "t", "r", "a", "n", "s", "a", "c", "t", "i", "o", "n", " ", "u", "n", "d", "e", "r", "p", "r", "i", "c", "e", "d">>,
     <<"U", "s", "e", "r", " ", "r", "e", "j", "e", "c", "t", "e", "d", " ", "t", "r", "a", "n", "s", "a", "c", "t", "i", "o", "n">>,
     <<"I", "n", "s", "u", "f", "f", "i", "c", "i", "e", "n", "t", " ", "f", "u", "n", "d", "s", " ", "f", "o", "r", " ", "t", "r", "a", "n", "s", "a", "c", "t", "i", "o", "n">>,
     <<"E", "x", "e", "c", "u", "t", "i", "o", "n", " ", "r", "e", "v", "e", "r", "t", "e", "d", ":", " ", "I", "n", "v", "a", "l", "i", "d", " ", "s", "t", "a", "t", "e">>,
     <<"c", "o", "n", "n", "e", "c", "t", "i", "o", "n", " ", "r", "e", "f", "u", "s", "e", "d">>,
     <<"r", "a", "t", "e", " ", "l", "i", "m", "i", "t", " ", "e", "x", "c", "e", "e", "d", "e", "d">>,
     <<"a", "l", "r", "e", "a", "d", "y", " ", "k", "n", "o", "w", "n">>,
     <<"g", "a", "s", " ", "p", "r", "i", "c", "e", " ", "t", "o", "o", " ", "l", "o", "w">>,
     <<"t", "r", "a", "n", "s", "a", "c", "t", "i", "o", "n", " ", "p", "e", "n", "d", "i", "n", "g">>,
     <<"r", "e", "q", "u", "e", "s", "t", " ", "q", "u", "e", "u", "e", "d">>,
     <<"U", "s", "e", "r", " ", "d", "e", "n", "i", "e", "d", " ", "s", "i", "g", "n", "a", "t", "u", "r", "e">>,
     <<"i", "n", "s", "u", "f", "f", "i", "c", "i", "e", "n", "t", " ", "b", "a", "l", "a", "n", "c", "e">>,
     <<"S", "o", "m", "e", "t", "h", "i", "n", "g", " ", "b", "r", "o", "k", "e">>,
     <<"n", "o", "n", "c", "e", " ", "t", "o", "o", " ", "h", "i", "g", "h">>,
     <<"I", "N", "S", "U", "F", "F", "I", "C", "I", "E", "N", "T", " ", "F", "U", "N", "D", "S">> >>

\* the substrings isRetryableError and handleTransactionError search for
kwNetwork == <<"n", "e", "t", "w", "o", "r", "k">>
kwTimeout == <<"t", "i", "m", "e", "o", "u", "t">>
kwConnection == <<"c", "o", "n", "n", "e", "c", "t", "i", "o", "n">>
kwRateLimit == <<"r", "a", "t", "e", " ", "l", "i", "m", "i", "t">>
kwTooManyRequests == <<"t", "o", "o", " ", "m", "a", "n", "y", " ", "r", "e", "q", "u", "e", "s", "t", "s">>
kw429 == <<"4", "2", "9">>
kwNonceTooLow == <<"n", "o", "n", "c", "e", " ", "t", "o", "o", " ", "l", "o", "w">>
kwAlreadyKnown == <<"a", "l", "r", "e", "a", "d", "y", " ", "k", "n", "o", "w", "n">>
kwReplacementUnderpriced == <<"r", "e", "p", "l", "a", "c", "e", "m", "e", "n", "t", " ", "t", "r", "a", "n", "s", "a", "c", "t", "i", "o", "n", " ", "u", "n", "d", "e", "r", "p", "r", "i", "c", "e", "d">>
kwGasPriceTooLow == <<"g", "a", "s", " ", "p", "r", "i", "c", "e", " ", "t", "o", "o", " ", "l", "o", "w">>
kwPending == <<"p", "e", "n", "d", "i", "n", "g">>
kwQueued == <<"q", "u", "e", "u", "e", "d">>
kwUserRejected == <<"u", "s", "e", "r", " ", "r", "e", "j", "e", "c", "t", "e", "d">>
kwUserDenied == <<"u", "s", "e", "r", " ", "d", "e", "n", "i", "e", "d">>
kwInsufficientFunds == <<"i", "n", "s", "u", "f", "f", "i", "c", "i", "e", "n", "t", " ", "f", "u", "n", "d", "s">>
kwInsufficientBalance == <<"i", "n", "s", "u", "f", "f", "i", "c", "i", "e", "n", "t", " ", "b", "a", "l", "a", "n", "c", "e">>
kwRevert == <<"r", "e", "v", "e", "r", "t">>
kwExecutionReverted == <<"e", "x", "e", "c", "u", "t", "i", "o", "n", " ", "r", "e", "v", "e", "r", "t", "e", "d">>
kwNonce == <<"n", "o", "n", "c", "e">>

\* String.prototype.toLowerCase on one character
LowerOf ==
  ("A" :> "a") @@ ("B" :> "b") @@ ("C" :> "c") @@ ("D" :> "d") @@ ("E" :>
  "e") @@ ("F" :> "f") @@ ("G" :> "g") @@ ("H" :> "h") @@ ("I" :> "i") @@
  ("J" :> "j") @@ ("K" :> "k") @@ ("L" :> "l") @@ ("M" :> "m") @@ ("N" :>
  "n") @@ ("O" :> "o") @@ ("P" :> "p") @@ ("Q" :> "q") @@ ("R" :> "r") @@
  ("S" :> "s") @@ ("T" :> "t") @@ ("U" :> "u") @@ ("V" :> "v") @@ ("W" :>
  "w") @@ ("X" :> "x") @@ ("Y" :> "y") @@ ("Z" :> "z")

toLowerCase(text) ==
  [i \in 1..Len(text) |->
     IF text[i] \in DOMAIN LowerOf THEN LowerOf[text[i]] ELSE text[i]]

\* String.prototype.includes
includes(text, s) ==
  \E i \in 1..(Len(text) - Len(s) + 1) : SubSeq(text, i, i + Len(s) - 1) = s

\* error.message; an error is given by the one or two phrases of its text
messageOf(error) ==
  IF Len(error) = 1 THEN Phrases[error[1]]
  ELSE Phrases[error[1]] \o <<";", " ">> \o Phrases[error[2]]

\* constructor(options): an absent option is 0 (a number) or "" (the strategy)
RetryManager(options) ==
  [strategy          |-> IF options.strategy = "" THEN EXPONENTIAL_BACKOFF
                         ELSE options.strategy,
   maxRetries        |-> IF options.maxRetries = 0 THEN DefaultRetries
                         ELSE options.maxRetries,
   baseDelay         |-> IF options.baseDelay = 0 THEN DefaultBaseDelay
                         ELSE options.baseDelay,
   maxDelay          |-> IF options.maxDelay = 0 THEN DefaultMaxDelay
                         ELSE options.maxDelay,
   backoffMultiplier |-> IF options.backoffMultiplier = 0 THEN DefaultBackoffMultiplier
                         ELSE options.backoffMultiplier]

\* isRetryableError(error)
isRetryableError(error) ==
  LET errorMessage == toLowerCase(messageOf(error)) IN
  IF \/ includes(errorMessage, kwNetwork)
     \/ includes(errorMessage, kwTimeout)
     \/ includes(errorMessage, kwConnection) THEN TRUE
  ELSE IF \/ includes(errorMessage, kwRateLimit)
          \/ includes(errorMessage, kwTooManyRequests)
          \/ includes(errorMessage, kw429) THEN TRUE
  ELSE IF \/ includes(errorMessage, kwNonceTooLow)
          \/ includes(errorMessage, kwAlreadyKnown) THEN TRUE
  ELSE IF \/ includes(errorMessage, kwReplacementUnderpriced)
          \/ includes(errorMessage, kwGasPriceTooLow) THEN TRUE
  ELSE IF \/ includes(errorMessage, kwPending)
          \/ includes(errorMessage, kwQueued) THEN TRUE
  ELSE IF \/ includes(errorMessage, kwUserRejected)
          \/ includes(errorMessage, kwUserDenied)
          \/ includes(errorMessage, kwInsufficientFunds)
          \/ includes(errorMessage, kwInsufficientBalance) THEN FALSE
  ELSE IF \/ includes(errorMessage, kwRevert)
          \/ includes(errorMessage, kwExecutionReverted) THEN FALSE
  ELSE FALSE

\* shouldRetry(transaction, error)
shouldRetry(transaction, error) ==
  IF transaction.retryCount >= transaction.maxRetries THEN FALSE
  ELSE isRetryableError(error)

\* Math.pow(b, e) for a whole e >= 0
RECURSIVE Pow(_, _)
Pow(b, e) == IF e = 0 THEN 1 ELSE b * Pow(b, e - 1)

Min(a, b) == IF a <= b THEN a ELSE b

\* fault injection: the exponential delay without the cap at maxDelay
uncappedExponentialDelay(options, attemptNumber, k) ==
  LET delay == options.baseDelay * Pow(options.backoffMultiplier, attemptNumber - 1)
      scale == 10 * JitterSteps
  IN (delay * scale + k * delay) \div scale

\* getExponentialBackoffDelay(attemptNumber), Math.random() = k / JitterSteps.
\* delay + jitter = delay * (10 * JitterSteps + k) / (10 * JitterSteps): the
\* minimum and the floor are taken on numerators over 10 * JitterSteps.
getExponentialBackoffDelay(options, attemptNumber, k) ==
  LET delay  == options.baseDelay * Pow(options.backoffMultiplier, attemptNumber - 1)
      scale  == 10 * JitterSteps
      jitter == k * delay
      totalDelay == Min(delay * scale + jitter, options.maxDelay * scale)
  IN totalDelay \div scale

\* fault injection: the linear delay without the cap at maxDelay
uncappedLinearDelay(options, attemptNumber) == options.baseDelay * attemptNumber

\* getLinearDelay(attemptNumber)
getLinearDelay(options, attemptNumber) ==
  Min(options.baseDelay * attemptNumber, options.maxDelay)

\* getRetryDelay(attemptNumber)
getRetryDelay(options, attemptNumber, k) ==
  CASE options.strategy = EXPONENTIAL_BACKOFF ->
         getExponentialBackoffDelay(options, attemptNumber, k)
    [] options.strategy = LINEAR -> getLinearDelay(options, attemptNumber)
    [] options.strategy = FIXED_DELAY -> options.baseDelay
    [] options.strategy = NONE -> 0
    [] OTHER -> options.baseDelay

\* incrementRetryCount(transaction): a copy, the argument is not changed
incrementRetryCount(transaction) ==
  [transaction EXCEPT !.retryCount = transaction.retryCount + 1]

\* resetRetryCount(transaction): a copy, the argument is not changed
resetRetryCount(transaction) == [transaction EXCEPT !.retryCount = 0]

(***************************************************************************)
(* TransactionExecutor                                                     *)
(***************************************************************************)
\* the provider errors explored by the executor: "Nonce too low" (retryable)
\* and "User rejected transaction" (not retryable)
EngineErrors == {<<3>>, <<5>>}

\* a notification count of the emitter, per record object (named by createdAt)
\* and the error carried by its last 'transaction:failed' notification
NoNotifications ==
  [queued |-> 0, started |-> 0, sent |-> 0, retry |-> 0, failed |-> 0,
   manual |-> 0, confirmed |-> 0, error |-> <<>>]
Notified(n, oid) == IF oid \in DOMAIN n THEN n[oid] ELSE NoNotifications
Emit(n, oid, kind) == MapSet(n, oid, [Notified(n, oid) EXCEPT ![kind] = @ + 1])
\* emitTransactionFailed(transaction, error)
emitTransactionFailed(n, oid, error) ==
  MapSet(n, oid, [Notified(n, oid) EXCEPT !.failed = @ + 1, !.error = error])

\* transaction.error = error, on the record object the attempt a holds: the
\* queue shows it only if that object is still the one stored under its id
setError(q, a, error) ==
  IF a.id \in DOMAIN q /\ q[a.id].createdAt = a.createdAt
  THEN [q EXCEPT ![a.id].error = error]
  ELSE q

\* the dependencies the graph holds for id
GraphDeps(graph, id) == IF id \in DOMAIN graph THEN graph[id] ELSE {}
\* a dependency that does not block: absent, CONFIRMED or CANCELLED
Satisfied(q, d) ==
  d \notin DOMAIN q \/ q[d].status = CONFIRMED \/ q[d].status = CANCELLED

\* the stages of executeTransaction at which it awaits the provider
ActivePc == {"nonce", "gas", "send", "confirm"}

\* executeTransaction(transaction) up to its first await: the call holds the
\* record object returned by getNext and waits for the account's nonce
startAttempt(q, graph, id) ==
  [id           |-> id,
   createdAt    |-> q[id].createdAt,
   retryCount   |-> q[id].retryCount,
   maxRetries   |-> q[id].maxRetries,
   dependencies |-> q[id].dependencies,
   pc           |-> "nonce",
   nonce        |-> <<>>,
   error        |-> <<>>,
   eligibleWhenSelected |-> \A d \in GraphDeps(graph, id) : Satisfied(q, d),
   unmetWhenSent |-> {}]

\* fault injection: the run loop without the test of the concurrency ceiling
RECURSIVE processQueueRunNoCeiling(_, _, _, _)
processQueueRunNoCeiling(q, executing, atts, n) ==
  LET id == getNext(q, executionOrder, dependencyGraph) IN
  IF id = NoId
  THEN [queue |-> q, currentlyExecuting |-> executing, attempts |-> atts,
        notified |-> n]
  ELSE processQueueRunNoCeiling(
         setStatus(setStatus(q, id, QUEUED), id, EXECUTING),
         executing \cup {id},
         atts (+) SetToBag({startAttempt(q, dependencyGraph, id)}),
         Emit(Emit(n, q[id].createdAt, "queued"), q[id].createdAt, "started"))

\* processQueue(), from the loop test to its next wait(): every record it
\* selects is marked QUEUED ('transaction:queued'), then executeTransaction
\* marks it EXECUTING ('transaction:started')
RECURSIVE processQueueRun(_, _, _, _)
processQueueRun(q, executing, atts, n) ==
  IF Cardinality(executing) >= maxConcurrent
  THEN [queue |-> q, currentlyExecuting |-> executing, attempts |-> atts,
        notified |-> n]
  ELSE LET id == getNext(q, executionOrder, dependencyGraph) IN
       IF id = NoId
       THEN [queue |-> q, currentlyExecuting |-> executing, attempts |-> atts,
             notified |-> n]
       ELSE processQueueRun(
              setStatus(setStatus(q, id, QUEUED), id, EXECUTING),
              executing \cup {id},
              atts (+) SetToBag({startAttempt(q, dependencyGraph, id)}),
              Emit(Emit(n, q[id].createdAt, "queued"), q[id].createdAt, "started"))

\* checkComplete of waitForAllComplete, also its 'queue:empty' listener,
\* applied to the wait w: it resolves when queue.isEmpty() (no record PENDING,
\* QUEUED, EXECUTING or CONFIRMING)
checkComplete(w) ==
  LET isEmpty ==
        \A id \in DOMAIN queue :
          queue[id].status \notin {PENDING, QUEUED, EXECUTING, CONFIRMING}
  IN IF w.op = "waitForAllComplete" /\ w.state = "pending" /\ isEmpty
     THEN [w EXCEPT !.state = "resolved"]
     ELSE w

\* processQueue(), the branch that calls emitQueueEmpty(): a loop that resumes
\* from wait() in this state is below the ceiling, gets no record from getNext
\* and finds currentlyExecuting empty
emitQueueEmpty ==
  /\ loops > 0
  /\ isRunning
  /\ Cardinality(currentlyExecuting) < maxConcurrent
  /\ getNext(queue, executionOrder, dependencyGraph) = NoId
  /\ Cardinality(currentlyExecuting) = 0

\* fault injection: a run loop that does not test isRunning
processQueueIgnoringStop ==
  /\ loops > 0
  /\ UNCHANGED <<queueKeys, executionOrder, dependencyGraph, now, maxConcurrent,
                 isRunning, nonceTracker, txCount, failures, reached,
                 nops, ret, retryCall, loops>>
  /\ LET r == processQueueRun(queue, currentlyExecuting, attempts, notified) IN
     /\ queue' = r.queue
     /\ currentlyExecuting' = r.currentlyExecuting
     /\ attempts' = r.attempts
     /\ notified' = r.notified

\* a suspended processQueue() resumes from wait()
processQueue ==
  /\ loops > 0
  /\ UNCHANGED <<queueKeys, executionOrder, dependencyGraph, now, maxConcurrent,
                 isRunning, nonceTracker, txCount, failures, reached,
                 nops, ret>>
  /\ retryCall' = IF emitQueueEmpty THEN checkComplete(retryCall) ELSE retryCall
  /\ IF ~isRunning
     THEN /\ loops' = loops - 1
          /\ UNCHANGED <<queue, currentlyExecuting, attempts, notified>>
     ELSE LET r == processQueueRun(queue, currentlyExecuting, attempts, notified) IN
          /\ queue' = r.queue
          /\ currentlyExecuting' = r.currentlyExecuting
          /\ attempts' = r.attempts
          /\ notified' = r.notified
          /\ UNCHANGED loops

\* start()
start ==
  /\ UNCHANGED <<queueKeys, executionOrder, dependencyGraph, now, maxConcurrent,
                 nonceTracker, txCount, failures, reached>>
  /\ IF isRunning
     THEN /\ ret' = Call("start", NoId, "noop")
          /\ UNCHANGED <<queue, isRunning, loops, currentlyExecuting, attempts,
                         notified, retryCall>>
     ELSE LET r == processQueueRun(queue, currentlyExecuting, attempts, notified) IN
          /\ isRunning' = TRUE
          /\ queue' = r.queue
          /\ currentlyExecuting' = r.currentlyExecuting
          /\ attempts' = r.attempts
          /\ notified' = r.notified
          /\ loops' = loops + 1
          /\ retryCall' =
               IF /\ currentlyExecuting = {}
                  /\ maxConcurrent > 0
                  /\ getNext(queue, executionOrder, dependencyGraph) = NoId
               THEN checkComplete(retryCall)
               ELSE retryCall
          /\ ret' = Call("start", NoId, "resumed")

\* stop()
stop ==
  /\ isRunning' = FALSE
  /\ ret' = Call("stop", NoId, "paused")
  /\ UNCHANGED <<queueVars, now, maxConcurrent, loops, currentlyExecuting, attempts,
                 nonceTracker, txCount, failures, notified, reached, retryCall>>

\* one executeTransaction() call moves from a to b
Step(a, b) == attempts' = (attempts (-) SetToBag({a})) (+) SetToBag({b})
\* one executeTransaction() call returns
Return(a) == attempts' = attempts (-) SetToBag({a})

\* prepareTransaction, the nonce part: the copy of the intent with its nonce,
\* and the tracker entry of the account afterwards. config.nonce is <<>> when
\* the intent has no nonce and <<n>> otherwise; !config.nonce is true for
\* both <<>> and <<0>>. currentNonce is what getTransactionCount returned.
prepareTransaction(options, config, currentNonce, tracker) ==
  IF options.nonceManager /\ (config.nonce = <<>> \/ config.nonce = <<0>>)
  THEN LET trackedNonce == IF tracker = <<>> \/ tracker[1] = 0 THEN currentNonce
                           ELSE tracker[1]
           nonce == IF currentNonce >= trackedNonce THEN currentNonce
                    ELSE trackedNonce
       IN [config |-> [config EXCEPT !.nonce = <<nonce>>],
           nonceTracker |-> <<nonce + 1>>]
  ELSE [config |-> config, nonceTracker |-> tracker]

\* prepareTransaction of an attempt (nonce management on, intent without a
\* nonce): the account's pending count arrives, the nonce is assigned and the
\* tracker advanced; estimateGas is awaited next
prepareNonce(a) ==
  LET prepared == prepareTransaction([nonceManager |-> TRUE], [nonce |-> <<>>],
                                     txCount, nonceTracker)
  IN /\ a.pc = "nonce"
     /\ nonceTracker' = prepared.nonceTracker
     /\ Step(a, [a EXCEPT !.pc = "gas", !.nonce = prepared.config.nonce])
     /\ UNCHANGED <<queueVars, now, maxConcurrent, isRunning, loops,
                    currentlyExecuting, txCount, failures, notified, reached,
                    nops, ret, retryCall>>

\* prepareTransaction: gas limit and gas price arrive; executeTransaction calls
\* provider.sendTransaction(preparedConfig)
prepareGas(a) ==
  /\ a.pc = "gas"
  /\ Step(a, [a EXCEPT !.pc = "send", !.unmetWhenSent = a.dependencies \ reached])
  /\ UNCHANGED <<queueVars, now, maxConcurrent, isRunning, loops, currentlyExecuting,
                 nonceTracker, txCount, failures, notified, reached, nops, ret,
                 retryCall>>

\* executeTransaction: the hash arrives; the record is marked CONFIRMING and
\* provider.waitForTransaction is called
sendReturned(a) ==
  /\ a.pc = "send"
  /\ txCount' = txCount + 1
  /\ notified' = Emit(notified, a.createdAt, "sent")
  /\ queue' = setStatus(queue, a.id, CONFIRMING)
  /\ Step(a, [a EXCEPT !.pc = "confirm"])
  /\ UNCHANGED <<queueKeys, executionOrder, dependencyGraph, now, maxConcurrent,
                 isRunning, loops, currentlyExecuting, nonceTracker, failures,
                 reached, nops, ret, retryCall>>

\* executeTransaction: the receipt arrives; the record is marked CONFIRMED and
\* the finally block drops the identifier from currentlyExecuting
confirmed(a) ==
  /\ a.pc = "confirm"
  /\ queue' = setStatus(queue, a.id, CONFIRMED)
  /\ reached' = IF a.id \in DOMAIN queue THEN reached \cup {a.id} ELSE reached
  /\ notified' = Emit(notified, a.createdAt, "confirmed")
  /\ currentlyExecuting' = currentlyExecuting \ {a.id}
  /\ Return(a)
  /\ UNCHANGED <<queueKeys, executionOrder, dependencyGraph, now, maxConcurrent,
                 isRunning, loops, nonceTracker, txCount, failures, nops, ret,
                 retryCall>>

\* handleTransactionError(transaction, error), entered from the catch block when
\* the awaited provider call rejects. Retry branch: up to wait(delay). Failure
\* branch: through the finally block of executeTransaction.
handleTransactionError(a, error) ==
  /\ a.pc \in ActivePc
  /\ failures' = failures + 1
  /\ UNCHANGED <<queueKeys, executionOrder, dependencyGraph, now, maxConcurrent,
                 isRunning, loops, nonceTracker, txCount, reached, nops, ret,
                 retryCall>>
  /\ IF shouldRetry(a, error)
     THEN LET updatedTx == incrementRetryCount(a) IN
          /\ queue' = setStatus(queue, updatedTx.id, PENDING)
          /\ notified' = Emit(notified, a.createdAt, "retry")
          /\ Step(a, [a EXCEPT !.pc = "retryWait", !.error = error])
          /\ UNCHANGED currentlyExecuting
     ELSE /\ queue' = setStatus(setError(queue, a, error), a.id, FAILED)
          /\ notified' = emitTransactionFailed(notified, a.createdAt, error)
          /\ currentlyExecuting' = currentlyExecuting \ {a.id}
          /\ Return(a)

\* fault injection: the end of the retry wait without the tracker reset
retryDelayElapsedKeepsTracker(a) ==
  /\ a.pc = "retryWait"
  /\ currentlyExecuting' = currentlyExecuting \ {a.id}
  /\ Return(a)
  /\ UNCHANGED <<queueVars, now, maxConcurrent, isRunning, loops, txCount, failures,
                 notified, reached, nops, ret, retryCall, nonceTracker>>

\* handleTransactionError after wait(delay): the tracker entry is dropped on a
\* nonce error; then the finally block of executeTransaction runs
retryDelayElapsed(a) ==
  /\ a.pc = "retryWait"
  /\ nonceTracker' = IF includes(toLowerCase(messageOf(a.error)), kwNonce) THEN <<>>
                     ELSE nonceTracker
  /\ currentlyExecuting' = currentlyExecuting \ {a.id}
  /\ Return(a)
  /\ UNCHANGED <<queueVars, now, maxConcurrent, isRunning, loops, txCount, failures,
                 notified, reached, nops, ret, retryCall>>

\* cancelTransaction(id)
cancelTransaction(id) ==
  /\ UNCHANGED <<now, maxConcurrent, isRunning, loops, currentlyExecuting, attempts,
                 nonceTracker, txCount, failures, notified, retryCall>>
  /\ IF id \notin DOMAIN queue \/ id \in currentlyExecuting
     THEN /\ ret' = Call("cancel", id, "false")
          /\ UNCHANGED <<queueVars, reached>>
     ELSE /\ cancel(id)
          /\ reached' = IF queue[id].status # CONFIRMED THEN reached \cup {id}
                        ELSE reached

\* fault injection: retryTransaction without the test for FAILED
retryTransactionUnguarded(id) ==
  /\ UNCHANGED <<queueKeys, executionOrder, dependencyGraph, now, maxConcurrent,
                 isRunning, loops, currentlyExecuting, attempts, nonceTracker,
                 txCount, failures, reached, retryCall>>
  /\ IF id \notin DOMAIN queue
     THEN /\ ret' = Call("retry", id, "false")
          /\ UNCHANGED <<queue, notified>>
     ELSE /\ queue' = setStatus(queue, id, PENDING)
          /\ notified' = Emit(notified, queue[id].createdAt, "manual")
          /\ ret' = Call("retry", id, "true")

\* retryTransaction(id)
retryTransaction(id) ==
  /\ UNCHANGED <<queueKeys, executionOrder, dependencyGraph, now, maxConcurrent,
                 isRunning, loops, currentlyExecuting, attempts, nonceTracker,
                 txCount, failures, reached, retryCall>>
  /\ IF id \notin DOMAIN queue
     THEN /\ ret' = Call("retry", id, "false")
          /\ UNCHANGED <<queue, notified>>
     ELSE IF queue[id].status # FAILED
     THEN /\ ret' = Call("retry", id, "false")
          /\ UNCHANGED <<queue, notified>>
     ELSE LET resetTx == resetRetryCount(queue[id]) IN
          /\ queue' = setStatus(queue, resetTx.id, PENDING)
          /\ notified' = Emit(notified, queue[id].createdAt, "manual")
          /\ ret' = Call("retry", id, "true")

(***************************************************************************)
(* SequentialTransactionHandler: the calls a user of the handler makes.    *)
(***************************************************************************)
executorIdle ==
  UNCHANGED <<maxConcurrent, isRunning, loops, currentlyExecuting, attempts,
              nonceTracker, txCount, failures, notified>>

\* addTransaction(config, options)
addTransaction(id, priority, dependencies, maxRetries) ==
  /\ add(id, priority, dependencies, maxRetries)
  /\ reached' = reached \ {id}
  /\ executorIdle
  /\ UNCHANGED <<nops, retryCall>>

\* queue.add(config, options) applied to the queue state st, as addSequence
\* calls it once per element
addedTo(st, id, priority, dependencies, maxRetries) ==
  LET transaction ==
        [id           |-> id,
         status       |-> PENDING,
         priority     |-> priority,
         dependencies |-> dependencies,
         retryCount   |-> 0,
         maxRetries   |-> IF maxRetries = 0 THEN defaultMaxRetries ELSE maxRetries,
         createdAt    |-> st.now,
         executedAt   |-> FALSE,
         confirmedAt  |-> FALSE,
         error        |-> <<>>]
      q1 == MapSet(st.queue, id, transaction)
  IN [queue |-> q1,
      queueKeys |-> IF id \in DOMAIN st.queue THEN st.queueKeys
                    ELSE Append(st.queueKeys, id),
      dependencyGraph |->
        IF dependencies # {} THEN MapSet(st.dependencyGraph, id, dependencies)
        ELSE st.dependencyGraph,
      executionOrder |->
        insertIntoExecutionOrder(st.executionOrder, q1, id, priority),
      now |-> st.now + 1]

\* fault injection: the elements of a sequence declare no dependency
noElementDependencies(ids, i) == {}

\* addSequence: the dependencies given for element i (counted from 1); the
\* identifiers returned by add are those of the configurations
elementDependencies(ids, i) == IF i > 1 THEN {ids[i - 1]} ELSE {}

\* addSequence: the loop from element i on
RECURSIVE addSequenceFrom(_, _, _, _, _)
addSequenceFrom(st, ids, i, priority, maxRetries) ==
  IF i > Len(ids) THEN st
  ELSE addSequenceFrom(
         addedTo(st, ids[i], priority, elementDependencies(ids, i), maxRetries),
         ids, i + 1, priority, maxRetries)

\* addSequence(transactions, options)
addSequence(ids, priority, maxRetries) ==
  LET st == addSequenceFrom(
              [queue |-> queue, queueKeys |-> queueKeys,
               executionOrder |-> executionOrder,
               dependencyGraph |-> dependencyGraph, now |-> now],
              ids, 1, priority, maxRetries)
  IN /\ queue' = st.queue
     /\ queueKeys' = st.queueKeys
     /\ executionOrder' = st.executionOrder
     /\ dependencyGraph' = st.dependencyGraph
     /\ now' = st.now
     /\ ret' = Call("addSequence", NoId, "ids")
     /\ reached' = reached \ {ids[i] : i \in 1..Len(ids)}
     /\ executorIdle
     /\ UNCHANGED <<nops, retryCall>>

\* removeTransaction(id)
removeTransaction(id) ==
  remove(id) /\ executorIdle /\ UNCHANGED <<now, reached, retryCall>>

\* reorderTransaction(id, newPriority)
reorderTransaction(id, newPriority) ==
  reorder(id, newPriority) /\ executorIdle /\ UNCHANGED <<now, reached, retryCall>>

\* clear()
handlerClear == clear /\ executorIdle /\ UNCHANGED <<now, reached, retryCall>>

\* waitForAllComplete(timeout), up to the return of the promise: checkComplete
\* runs once, the listener is registered, and the timer is set when timeout is
\* not 0
waitForAllComplete(timeout) ==
  /\ retryCall' = checkComplete([op |-> "waitForAllComplete", timeout |-> timeout,
                                 state |-> "pending", expired |-> FALSE])
  /\ UNCHANGED <<queueVars, executorVars, now, nops, ret>>

(***************************************************************************)
(* Specifications.                                                         *)
(***************************************************************************)
\* values of options.maxConcurrent
ConcurrencyChoices == {1, 2}
\* values of options.dependencies and options.priority given to the handler
HandlerDeps == {{}, {"A"}}
HandlerPriorities == {0, 1}

NoCall == [op |-> "none"]

\* a queue, and an executor that was never started
InitIdle ==
  /\ queue = EmptyMap
  /\ queueKeys = <<>>
  /\ executionOrder = <<>>
  /\ dependencyGraph = EmptyMap
  /\ now = 0
  /\ currentlyExecuting = {}
  /\ attempts = EmptyBag
  /\ nonceTracker = <<>>
  /\ txCount = 0
  /\ failures = 0
  /\ notified = EmptyMap
  /\ reached = {}
  /\ nops = 0
  /\ ret = Call("new", NoId, "void")

\* new SequentialTransactionHandler(provider, options): autoStart is on, so
\* the constructor has called start() and processQueue() waits on an empty queue
Init ==
  /\ InitIdle
  /\ maxConcurrent \in ConcurrencyChoices
  /\ isRunning = TRUE
  /\ loops = 1
  /\ retryCall = NoCall

HandlerAdd ==
  \E id \in Ids, p \in HandlerPriorities, d \in HandlerDeps :
    now < HandlerAdds /\ addTransaction(id, p, d, 1)
HandlerCancel ==
  \E id \in Ids : nops < HandlerOps /\ nops' = nops + 1 /\ cancelTransaction(id)
HandlerRetry ==
  \E id \in Ids : nops < HandlerOps /\ nops' = nops + 1 /\ retryTransaction(id)
HandlerRemove ==
  \E id \in Ids : nops < HandlerOps /\ nops' = nops + 1 /\ removeTransaction(id)
HandlerReorder ==
  \E id \in Ids, p \in HandlerPriorities :
    nops < HandlerOps /\ nops' = nops + 1 /\ reorderTransaction(id, p)
HandlerClear == nops < HandlerOps /\ nops' = nops + 1 /\ handlerClear
HandlerStart == nops < HandlerOps /\ nops' = nops + 1 /\ start
HandlerStop == nops < HandlerOps /\ nops' = nops + 1 /\ stop
ProviderNonce == \E a \in BagToSet(attempts) : prepareNonce(a)
ProviderGas == \E a \in BagToSet(attempts) : prepareGas(a)
ProviderSend == \E a \in BagToSet(attempts) : sendReturned(a)
ProviderConfirm == \E a \in BagToSet(attempts) : confirmed(a)
ProviderFail ==
  \E a \in BagToSet(attempts), error \in EngineErrors :
    failures < MaxFailures /\ nops' = nops /\ handleTransactionError(a, error)
RetryDelay == \E a \in BagToSet(attempts) : retryDelayElapsed(a)

Next ==
  \/ HandlerAdd
  \/ HandlerCancel
  \/ HandlerRetry
  \/ HandlerRemove
  \/ HandlerReorder
  \/ HandlerClear
  \/ HandlerStart
  \/ HandlerStop
  \/ processQueue
  \/ ProviderNonce
  \/ ProviderGas
  \/ ProviderSend
  \/ ProviderConfirm
  \/ ProviderFail
  \/ RetryDelay

\* the handler and its executor under every interleaving of user calls,
\* provider responses and timers
Spec == Init /\ [][Next]_vars

\* the provider errors of the nonce specification: "Network timeout" and
\* "Nonce too low" (retryable), "User rejected transaction" (not retryable)
NonceErrors == {<<1>>, <<3>>, <<5>>}

\* two records with no dependencies run by the executor under automatic nonce
\* management, against a provider whose calls may fail
NextNonce ==
  \/ \E id \in Ids \ DOMAIN queue : now < HandlerAdds /\ addTransaction(id, 0, {}, 1)
  \/ processQueue
  \/ ProviderNonce
  \/ ProviderGas
  \/ ProviderSend
  \/ ProviderConfirm
  \/ \E a \in BagToSet(attempts), error \in NonceErrors :
       failures < MaxAttemptFailures /\ nops' = nops /\ handleTransactionError(a, error)
  \/ RetryDelay

SpecNonce == Init /\ [][NextNonce]_vars

\* the provider errors of the attempts specification: "Network timeout"
\* (retryable) and "User rejected transaction" (not retryable)
AttemptErrors == {<<1>>, <<5>>}

AttemptsAdd ==
  \E id \in Ids \ DOMAIN queue :
    now < MaxAdds /\ addTransaction(id, 0, {}, 1)
AttemptsFail ==
  \E a \in BagToSet(attempts), error \in AttemptErrors :
    failures < MaxAttemptFailures /\ nops' = nops /\ handleTransactionError(a, error)

NextAttempts ==
  \/ AttemptsAdd
  \/ processQueue
  \/ ProviderNonce
  \/ ProviderGas
  \/ ProviderSend
  \/ ProviderConfirm
  \/ AttemptsFail
  \/ RetryDelay

\* records with distinct identifiers, no dependencies and retry ceiling 1, run
\* by the executor against a provider whose calls may fail
SpecAttempts == Init /\ [][NextAttempts]_vars

\* addTransaction with an identifier that is not in the queue
ControlAdd ==
  \E id \in Ids \ DOMAIN queue, p \in HandlerPriorities, d \in HandlerDeps :
    now < HandlerAdds /\ addTransaction(id, p, d, 1)

NextControl ==
  \/ ControlAdd
  \/ HandlerCancel
  \/ HandlerRetry
  \/ HandlerReorder
  \/ HandlerStart
  \/ HandlerStop
  \/ processQueue
  \/ ProviderNonce
  \/ ProviderGas
  \/ ProviderSend
  \/ ProviderConfirm
  \/ ProviderFail
  \/ RetryDelay

\* records with distinct identifiers under the manual controls (cancel, retry,
\* reorder, start, stop), with no removeTransaction and no clear
SpecControl == Init /\ [][NextControl]_vars

RunLoopStart == nops < MaxToggles /\ nops' = nops + 1 /\ start
RunLoopStop == nops < MaxToggles /\ nops' = nops + 1 /\ stop

NextRunLoop ==
  \/ ControlAdd
  \/ RunLoopStart
  \/ RunLoopStop
  \/ processQueue
  \/ ProviderNonce
  \/ ProviderGas
  \/ ProviderSend
  \/ ProviderConfirm
  \/ ProviderFail
  \/ RetryDelay

\* start() and stop() called at arbitrary times on an executor that runs
\* records with distinct identifiers; the provider answers every call it was
\* given and every retry timer fires
SpecRunLoop ==
  /\ Init
  /\ [][NextRunLoop]_vars
  /\ WF_vars(ProviderNonce)
  /\ WF_vars(ProviderGas)
  /\ WF_vars(ProviderSend)
  /\ WF_vars(ProviderConfirm)
  /\ WF_vars(RetryDelay)

\* concurrency ceiling 1, as in the end-to-end scenarios
InitSerial ==
  /\ InitIdle
  /\ maxConcurrent = 1
  /\ isRunning = TRUE
  /\ loops = 1
  /\ retryCall = NoCall

\* addTransaction of an independent record before the run loop has selected
\* any record
DrainAdd ==
  \E id \in Ids \ DOMAIN queue, p \in PrioritySet :
    /\ now < MaxAdds
    /\ attempts = EmptyBag
    /\ \A o \in DOMAIN queue : queue[o].status = PENDING
    /\ addTransaction(id, p, {}, 1)

NextDrain ==
  \/ DrainAdd
  \/ processQueue
  \/ ProviderNonce
  \/ ProviderGas
  \/ ProviderSend
  \/ ProviderConfirm

\* independent records, all enqueued before the first is selected, drained by
\* an executor with ceiling 1 against a provider that always succeeds
SpecDrain == InitSerial /\ [][NextDrain]_vars

\* a handler that is given records with dependencies, under identifiers it may
\* have been given before, and one waitForAllComplete call; every provider call
\* succeeds. The last disjunct is the timer of waitForAllComplete: it removes the
\* listener and rejects (without effect on a promise that was resolved)
NextWait ==
  \/ \E id \in {"A", "B"}, d \in DepChoices :
       now < MaxAdds /\ addTransaction(id, 0, d, 1)
  \/ processQueue
  \/ ProviderNonce
  \/ ProviderGas
  \/ ProviderSend
  \/ ProviderConfirm
  \/ \E timeout \in {0, 100} : retryCall = NoCall /\ waitForAllComplete(timeout)
  \/ /\ retryCall.op = "waitForAllComplete"
     /\ retryCall.timeout # 0
     /\ ~retryCall.expired
     /\ retryCall' = [retryCall EXCEPT
                        !.expired = TRUE,
                        !.state = IF @ = "pending" THEN "rejected" ELSE @]
     /\ UNCHANGED <<queueVars, executorVars, now, nops, ret>>

\* the run loop resumes from every wait() and the provider answers every call
SpecWait ==
  /\ Init
  /\ [][NextWait]_vars
  /\ WF_vars(processQueue)
  /\ WF_vars(ProviderNonce)
  /\ WF_vars(ProviderGas)
  /\ WF_vars(ProviderSend)
  /\ WF_vars(ProviderConfirm)

\* the sequences given to addSequence and the retryable errors of the
\* provider's first send: "Network timeout" and "Nonce too low"
SequenceChoices == {<<"A", "B">>, <<"A", "B", "C">>, <<"B", "A">>}
SequenceErrors == {<<1>>, <<3>>}

SequenceAdd ==
  \E ids \in SequenceChoices, p \in HandlerPriorities :
    queue = EmptyMap /\ now = 0 /\ addSequence(ids, p, 0)
\* the provider's first sendTransaction rejects
SequenceFail ==
  \E a \in BagToSet(attempts), error \in SequenceErrors :
    /\ failures = 0
    /\ a.pc = "send"
    /\ nops' = nops
    /\ handleTransactionError(a, error)
\* every later sendTransaction resolves
SequenceSend == \E a \in BagToSet(attempts) : failures > 0 /\ sendReturned(a)

NextSequence ==
  \/ SequenceAdd
  \/ processQueue
  \/ ProviderNonce
  \/ ProviderGas
  \/ SequenceFail
  \/ SequenceSend
  \/ ProviderConfirm
  \/ RetryDelay

\* one addSequence call, run against a provider whose first send fails with a
\* retryable error and whose other calls succeed; timers fire and the
\* provider answers every call
SpecSequence ==
  /\ Init
  /\ [][NextSequence]_vars
  /\ WF_vars(processQueue)
  /\ WF_vars(ProviderNonce)
  /\ WF_vars(ProviderGas)
  /\ WF_vars(SequenceFail)
  /\ WF_vars(SequenceSend)
  /\ WF_vars(ProviderConfirm)
  /\ WF_vars(RetryDelay)

\* new TransactionQueue(options), used without an executor
InitQueue ==
  /\ InitIdle
  /\ maxConcurrent = 1
  /\ isRunning = FALSE
  /\ loops = 0
  /\ retryCall = NoCall

queueOnly == UNCHANGED <<executorVars, retryCall>>

QueueAdd ==
  \E id \in Ids, p \in QueuePriorities, d \in DepChoices :
    now < MaxAdds /\ add(id, p, d, 0) /\ UNCHANGED nops /\ queueOnly
QueueRemove ==
  \E id \in Ids :
    nops < MaxOps /\ nops' = nops + 1 /\ remove(id) /\ UNCHANGED now /\ queueOnly
QueueCancel ==
  \E id \in Ids :
    nops < MaxOps /\ nops' = nops + 1 /\ cancel(id) /\ UNCHANGED now /\ queueOnly
QueueUpdateStatus ==
  \E id \in Ids, s \in TransactionStatus :
    /\ nops < MaxOps /\ nops' = nops + 1
    /\ updateStatus(id, s) /\ UNCHANGED now /\ queueOnly
QueueClear ==
  nops < MaxOps /\ nops' = nops + 1 /\ clear /\ UNCHANGED now /\ queueOnly
QueueReorder ==
  \E id \in Ids, p \in QueuePriorities :
    /\ nops < MaxOps /\ nops' = nops + 1
    /\ reorder(id, p) /\ UNCHANGED now /\ queueOnly

NextQueue ==
  \/ QueueAdd
  \/ QueueRemove
  \/ QueueCancel
  \/ QueueUpdateStatus
  \/ QueueClear
  \/ QueueReorder

\* the queue driven directly through its public methods
SpecQueue == InitQueue /\ [][NextQueue]_vars

\* prepareTransaction called for intents with and without a nonce, with nonce
\* management on and off, while the provider's pending count advances
NextPrepare ==
  \/ /\ txCount < MaxNonce
     /\ txCount' = txCount + 1
     /\ UNCHANGED <<queueVars, now, maxConcurrent, isRunning, loops,
                    currentlyExecuting, attempts, nonceTracker, failures,
                    notified, reached, nops, ret, retryCall>>
  \/ \E nonceManager \in BOOLEAN, nonce \in {<<>>} \cup {<<n>> : n \in 0..MaxNonce} :
       LET options == [nonceManager |-> nonceManager]
           config == [nonce |-> nonce]
           prepared == prepareTransaction(options, config, txCount, nonceTracker)
       IN /\ Len(nonceTracker) = 0 \/ nonceTracker \in {<<n>> : n \in 0..MaxNonce}
          /\ nonceTracker' = prepared.nonceTracker
          /\ retryCall' = [op |-> "prepareTransaction", options |-> options,
                           config |-> config, currentNonce |-> txCount,
                           tracked |-> nonceTracker,
                           preparedConfig |-> prepared.config,
                           nonceTracker |-> prepared.nonceTracker]
          /\ UNCHANGED <<queueVars, now, maxConcurrent, isRunning, loops,
                         currentlyExecuting, attempts, txCount, failures,
                         notified, reached, nops, ret>>

SpecPrepare == InitQueue /\ [][NextPrepare]_vars

\* add with an identifier that is not in the queue, then reorder, remove,
\* cancel, updateStatus and clear
NextOrder ==
  \/ \E id \in Ids \ DOMAIN queue, p \in QueuePriorities :
       now < MaxAdds /\ add(id, p, {}, 0) /\ UNCHANGED nops /\ queueOnly
  \/ /\ nops < MaxOrderOps /\ nops' = nops + 1 /\ UNCHANGED now /\ queueOnly
     /\ \/ \E id \in Ids, p \in QueuePriorities : reorder(id, p)
        \/ \E id \in Ids : remove(id)
        \/ \E id \in Ids : cancel(id)
        \/ \E id \in Ids, st \in TransactionStatus : updateStatus(id, st)
        \/ clear

\* the queue driven through the methods that touch the execution order
SpecOrder == InitQueue /\ [][NextOrder]_vars

\* add (no priority, no dependencies), remove, and validateTransaction of a
\* configuration whose optional fields are present or absent
NextValidate ==
  \/ \E id \in Ids :
       now < MaxAdds /\ add(id, 0, {}, 0) /\ UNCHANGED nops /\ queueOnly
  \/ QueueRemove
  \/ \E config \in [id : Ids \cup {"undefined"}, to : {"undefined", "", "0x0"},
                    data : {"undefined", "", "0x12"}, value : {<<>>, <<0>>, <<1>>},
                    gasLimit : {<<>>, <<2>>}, gasPrice : {<<>>, <<3>>}] :
       /\ nops < MaxOps /\ nops' = nops + 1
       /\ ret' = [op |-> "validate", id |-> config.id, config |-> config,
                  res |-> validateTransaction(queue, config)]
       /\ UNCHANGED <<queueVars, now>> /\ queueOnly

\* validateTransaction called between additions and removals
SpecValidate == InitQueue /\ [][NextValidate]_vars

PriorityAdd ==
  \E id \in Ids \ DOMAIN queue, p \in PrioritySet, d \in HandlerDeps :
    now < MaxAdds /\ add(id, p, d, 0) /\ UNCHANGED nops /\ queueOnly
PriorityUpdateStatus ==
  \E id \in Ids, s \in TransactionStatus :
    /\ nops < MaxOps /\ nops' = nops + 1
    /\ updateStatus(id, s) /\ UNCHANGED now /\ queueOnly
PriorityCancel ==
  \E id \in Ids :
    nops < MaxOps /\ nops' = nops + 1 /\ cancel(id) /\ UNCHANGED now /\ queueOnly

NextPriority ==
  \/ PriorityAdd
  \/ PriorityUpdateStatus
  \/ PriorityCancel

\* add with distinct identifiers, updateStatus and cancel
SpecPriority == InitQueue /\ [][NextPriority]_vars

\* the inputs of RetryManager.shouldRetry and RetryManager.getRetryDelay
MaxRetryCount == 3
RetryErrors ==
  {<<i>> : i \in 1..Len(Phrases)}
    \cup {<<i, j>> : i \in 1..Len(Phrases), j \in 1..Len(Phrases)}
BaseDelays == {0, 100, 500}
MaxDelays == {0, 300, 1000, 5000}
Multipliers == {0, 2, 3}
AttemptNumbers == {1, 2, 3, 10}

ShouldRetryCalls ==
  {[op |-> "shouldRetry",
    transaction |-> [retryCount |-> rc, maxRetries |-> mr],
    error |-> e, done |-> FALSE, result |-> FALSE] :
     rc \in 0..MaxRetryCount, mr \in 1..MaxRetryCount, e \in RetryErrors}

GetRetryDelayCalls ==
  {[op |-> "getRetryDelay",
    options |-> RetryManager([strategy |-> st, maxRetries |-> 0, baseDelay |-> b,
                              maxDelay |-> m, backoffMultiplier |-> mu]),
    attemptNumber |-> n, random |-> k, done |-> FALSE, result |-> 0] :
     st \in RetryStrategy \cup {""}, b \in BaseDelays, m \in MaxDelays,
     mu \in Multipliers, n \in AttemptNumbers, k \in 0..(JitterSteps - 1)}

InitRetry ==
  /\ InitIdle
  /\ maxConcurrent = 1
  /\ isRunning = FALSE
  /\ loops = 0
  /\ retryCall \in ShouldRetryCalls \cup GetRetryDelayCalls

retryOnly == UNCHANGED <<queueVars, now, executorVars, nops, ret>>

CallShouldRetry ==
  /\ retryCall.op = "shouldRetry" /\ ~retryCall.done
  /\ retryCall' = [retryCall EXCEPT
                     !.done = TRUE,
                     !.result = shouldRetry(retryCall.transaction, retryCall.error)]
  /\ retryOnly

CallGetRetryDelay ==
  /\ retryCall.op = "getRetryDelay" /\ ~retryCall.done
  /\ retryCall' = [retryCall EXCEPT
                     !.done = TRUE,
                     !.result = getRetryDelay(retryCall.options,
                                              retryCall.attemptNumber,
                                              retryCall.random)]
  /\ retryOnly

NextRetry ==
  \/ CallShouldRetry
  \/ CallGetRetryDelay

\* the retry policy applied to inputs drawn from bounded sets
SpecRetry == InitRetry /\ [][NextRetry]_vars

(***************************************************************************)
(* Properties of TransactionQueue.getNext (SpecQueue, SpecPriority).       *)
(***************************************************************************)
\* what getNext() returns in the current state
nextEligible == getNext(queue, executionOrder, dependencyGraph)

C4_HighestPriorityEarliestAdded ==
  LET eligible ==
        {id \in DOMAIN queue :
           /\ queue[id].status \in {PENDING, QUEUED}
           /\ \A d \in queue[id].dependencies : Satisfied(queue, d)}
  IN IF eligible = {} THEN nextEligible = NoId
     ELSE /\ nextEligible \in eligible
          /\ \A o \in eligible :
               \/ queue[o].priority < queue[nextEligible].priority
               \/ /\ queue[o].priority = queue[nextEligible].priority
                  /\ queue[nextEligible].createdAt <= queue[o].createdAt

\* C4 witness: priorities 1, 10, 5 were added in that order, the records of
\* priority 10 and 5 are CONFIRMED and getNext returns the one of priority 1.
C4_LowestReturnedLast ==
  /\ DOMAIN queue = Ids
  /\ queue["A"].priority = 1 /\ queue["A"].createdAt = 0
  /\ queue["B"].priority = 10 /\ queue["B"].createdAt = 1
  /\ queue["C"].priority = 5 /\ queue["C"].createdAt = 2
  /\ queue["B"].status = CONFIRMED
  /\ queue["C"].status = CONFIRMED
  /\ nextEligible = "A"

\* C6: add called with an identifier already present is rejected and leaves
\* the record table, the execution order and the dependency graph unchanged.
C6_DuplicateAddRejected ==
  [][(ret'.op = "add" /\ now' = now + 1 /\ ret'.id \in DOMAIN queue)
       => (ret'.res = "error" /\ UNCHANGED queueVars)]_vars

\* C12: cancel returns false and changes no record for an unknown identifier
\* and for a CONFIRMED record; for a record in any other status it sets the
\* status to CANCELLED, changes nothing else and returns true.
C12_CancelContract ==
  [][(nops' = nops + 1 /\ ret'.op = "cancel") =>
       LET id == ret'.id IN
       /\ UNCHANGED <<queueKeys, executionOrder, dependencyGraph>>
       /\ IF id \notin DOMAIN queue \/ queue[id].status = CONFIRMED
          THEN ret'.res = "false" /\ queue' = queue
          ELSE /\ ret'.res = "true"
               /\ DOMAIN queue' = DOMAIN queue
               /\ queue'[id].status = CANCELLED
               /\ \A o \in DOMAIN queue \ {id} : queue'[o] = queue[o]
               /\ \A f \in DOMAIN queue[id] \ {"status"} :
                    queue'[id][f] = queue[id][f]]_vars

\* C12 witness: cancel of a CONFIRMED record has returned false and the record
\* is still CONFIRMED.
C12_CancelConfirmedRefused ==
  /\ ret.op = "cancel"
  /\ ret.res = "false"
  /\ ret.id \in DOMAIN queue
  /\ queue[ret.id].status = CONFIRMED

C25_ValidationContract ==
  [][(nops' = nops + 1 /\ ret'.op = "validate") =>
       LET config == ret'.config
           validation == ret'.res
       IN /\ validation.isValid = FALSE <=>
               (config.to \in {"undefined", ""} \/ config.id \in DOMAIN queue)
          /\ (config.data \in {"undefined", ""} /\ config.value \in {<<>>, <<0>>})
               => Len(validation.warnings) = 1
          /\ UNCHANGED queueVars]_vars

\* C25 witness: a config with a target, a fresh identifier and neither data
\* nor value was validated against a queue that holds a record: it is valid
\* and carries a warning.
C25_ValidWithWarning ==
  /\ ret.op = "validate"
  /\ ret.res.isValid
  /\ Len(ret.res.warnings) = 1
  /\ ret.config.to = "0x0"
  /\ ret.config.id \in Ids \ DOMAIN queue
  /\ queue # EmptyMap

\* C26: the execution order lists the records in non-increasing priority.
C26_OrderNonIncreasingPriority ==
  \A i, j \in 1..Len(executionOrder) :
    (i < j /\ executionOrder[i] \in DOMAIN queue /\ executionOrder[j] \in DOMAIN queue)
      => queue[executionOrder[i]].priority >= queue[executionOrder[j]].priority

\* C32: a record none of whose declared dependencies is present in the queue
\* (a record that declares none included) is not blocked by the dependency
\* check.
C32_AbsentDependenciesDoNotBlock ==
  \A id \in DOMAIN queue :
    (\A d \in queue[id].dependencies : d \notin DOMAIN queue)
      => ~hasPendingDependencies(queue, dependencyGraph, id)

C34_ReorderContract ==
  [][(nops' = nops + 1 /\ ret'.op = "reorder") =>
       LET id == ret'.id IN
       IF id \notin DOMAIN queue
       THEN ret'.res = "false" /\ UNCHANGED <<queue, executionOrder, dependencyGraph>>
       ELSE /\ ret'.res = "true"
            /\ queue' = [queue EXCEPT ![id].priority = queue'[id].priority]
            /\ FilterOut(executionOrder', id) = FilterOut(executionOrder, id)
            /\ \E k \in 1..Len(executionOrder') :
                 /\ executionOrder'[k] = id
                 /\ \A j \in 1..Len(executionOrder') :
                      /\ j < k => queue'[executionOrder'[j]].priority >= queue'[id].priority
                      /\ j > k => queue'[executionOrder'[j]].priority < queue'[id].priority
    ]_vars

\* C39: the execution order holds each identifier of the record table exactly
\* once and nothing else, and every key of the dependency graph is an
\* identifier of the record table.
C39_QueueStructureConsistent ==
  /\ \A id \in DOMAIN queue :
       Cardinality({i \in 1..Len(executionOrder) : executionOrder[i] = id}) = 1
  /\ \A i \in 1..Len(executionOrder) : executionOrder[i] \in DOMAIN queue
  /\ DOMAIN dependencyGraph \subseteq DOMAIN queue

C14_ClearKeepsInFlightInOrder ==
  [][(nops' = nops + 1 /\ ret'.op = "clear") =>
       LET kept == {id \in DOMAIN queue :
                      queue[id].status \in {EXECUTING, CONFIRMING}}
           first(order, id) ==
             CHOOSE i \in 1..Len(order) :
               order[i] = id /\ \A j \in 1..(i - 1) : order[j] # id
       IN /\ queue' = [id \in kept |-> queue[id]]
          /\ {executionOrder'[i] : i \in 1..Len(executionOrder')} = kept
          /\ \A x, y \in kept :
               first(executionOrder', x) < first(executionOrder', y)
                 => first(executionOrder, x) < first(executionOrder, y)]_vars

\* C15: with ceiling 1, a provider that always succeeds and independent
\* records enqueued before any is selected, a record is dispatched, and is
\* confirmed, only after every record of higher priority, and every earlier
\* record of its own priority, is CONFIRMED; 'transaction:confirmed' has been
\* emitted once for each CONFIRMED record and for no other.
C15_DrainsInPriorityOrder ==
  LET before(y, x) ==
        \/ queue[y].priority > queue[x].priority
        \/ /\ queue[y].priority = queue[x].priority
           /\ queue[y].createdAt < queue[x].createdAt
      begun(x) ==
        \/ queue[x].status \in {EXECUTING, CONFIRMING, CONFIRMED}
        \/ \E a \in BagToSet(attempts) : a.id = x
  IN /\ \A x \in DOMAIN queue :
          begun(x) =>
            \A y \in DOMAIN queue : before(y, x) => queue[y].status = CONFIRMED
     /\ \A x \in DOMAIN queue :
          Notified(notified, queue[x].createdAt).confirmed
            = (IF queue[x].status = CONFIRMED THEN 1 ELSE 0)

\* C15 witness: priorities 1, 10, 5 enqueued in that order; the records of
\* priority 10 and 5 are CONFIRMED, each notified once, and the record of
\* priority 1 has been sent.
C15_LowestSentLast ==
  /\ DOMAIN queue = Ids
  /\ queue["A"].priority = 1 /\ queue["A"].createdAt = 0
  /\ queue["B"].priority = 10 /\ queue["B"].createdAt = 1
  /\ queue["C"].priority = 5 /\ queue["C"].createdAt = 2
  /\ queue["B"].status = CONFIRMED /\ Notified(notified, 1).confirmed = 1
  /\ queue["C"].status = CONFIRMED /\ Notified(notified, 2).confirmed = 1
  /\ queue["A"].status = CONFIRMING

\* C16: in a run of one addSequence call whose first send fails once with a
\* retryable error, element i declares exactly element i-1, no element is
\* started before its predecessor is CONFIRMED, only the first element is
\* retried and only once, and the run ends with every element CONFIRMED, one
\* 'transaction:retry' notification and no attempt left.
C16_SequenceWithOneFailure ==
  LET previous(x) ==
        {y \in DOMAIN queue : queue[y].createdAt = queue[x].createdAt - 1}
      retries(x) == Notified(notified, queue[x].createdAt).retry
      ordered ==
        /\ \A x \in DOMAIN queue :
             /\ queue[x].dependencies = previous(x)
             /\ GraphDeps(dependencyGraph, x) = previous(x)
             /\ retries(x) <= (IF queue[x].createdAt = 0 THEN 1 ELSE 0)
        /\ \A a \in BagToSet(attempts) :
             \A y \in previous(a.id) : queue[y].status = CONFIRMED
        /\ \A x \in DOMAIN queue :
             queue[x].status \in {QUEUED, EXECUTING, CONFIRMING, CONFIRMED} =>
               \A y \in previous(x) : queue[y].status = CONFIRMED
      finished ==
        /\ attempts = EmptyBag
        /\ \A x \in DOMAIN queue :
             /\ queue[x].status = CONFIRMED
             /\ retries(x) = (IF queue[x].createdAt = 0 THEN 1 ELSE 0)
  IN /\ []ordered
     /\ (queue # EmptyMap) ~> []finished

\* C16 witness: the sequence [A, B] was added, A was retried once and is
\* CONFIRMED, and B has been sent.
C16_SecondSentAfterRetriedFirst ==
  /\ DOMAIN queue = {"A", "B"}
  /\ queue["A"].createdAt = 0
  /\ queue["B"].dependencies = {"A"}
  /\ Notified(notified, 0).retry = 1
  /\ queue["A"].status = CONFIRMED
  /\ queue["B"].status = CONFIRMING

\* C17: cancelTransaction(id) called while an attempt of the record is in
\* progress returns false and leaves every record as it is.
C17_InFlightCancelRejected ==
  [][(nops' = nops + 1 /\ ret'.op = "cancel"
        /\ \E a \in BagToSet(attempts) : a.id = ret'.id /\ a.pc \in ActivePc)
       => (ret'.res = "false" /\ queue' = queue)]_vars

\* C18: retryTransaction(id) returns false and changes nothing for an unknown
\* identifier and for a record that is not FAILED; for a FAILED record it
\* returns true and the stored record is then PENDING with retryCount 0.
C18_ManualRetryContract ==
  [][(nops' = nops + 1 /\ ret'.op = "retry") =>
       LET id == ret'.id IN
       /\ UNCHANGED <<queueKeys, executionOrder, dependencyGraph>>
       /\ IF id \notin DOMAIN queue
          THEN ret'.res = "false" /\ queue' = queue
          ELSE IF queue[id].status # FAILED
          THEN ret'.res = "false" /\ queue' = queue
          ELSE /\ ret'.res = "true"
               /\ DOMAIN queue' = DOMAIN queue
               /\ queue'[id].status = PENDING
               /\ queue'[id].retryCount = 0
               /\ \A o \in DOMAIN queue \ {id} : queue'[o] = queue[o]]_vars

\* C18 witness: retryTransaction of a FAILED record has returned true and the
\* record is PENDING with retryCount 0.
C18_FailedRecordRetried ==
  /\ ret.op = "retry"
  /\ ret.res = "true"
  /\ ret.id \in DOMAIN queue
  /\ queue[ret.id].status = PENDING
  /\ queue[ret.id].retryCount = 0
  /\ Notified(notified, queue[ret.id].createdAt).failed = 1

\* C19: a record that is CONFIRMED stays in the queue and stays CONFIRMED
\* under cancelTransaction, retryTransaction, reorderTransaction, start, stop
\* and every step of the executor.
C19_ConfirmedIsTerminal ==
  [][\A id \in DOMAIN queue :
       queue[id].status = CONFIRMED =>
         id \in DOMAIN queue' /\ queue'[id].status = CONFIRMED]_vars

\* C19 witness: cancelTransaction of a CONFIRMED record was refused and the
\* record is CONFIRMED.
C19_ConfirmedSurvivesCancel ==
  /\ ret.op = "cancel"
  /\ ret.res = "false"
  /\ ret.id \in DOMAIN queue
  /\ queue[ret.id].status = CONFIRMED
  /\ Notified(notified, queue[ret.id].createdAt).confirmed = 1

\* C20: the status of a record changes to CANCELLED only from PENDING or
\* QUEUED.
C20_CancelledOnlyBeforeExecution ==
  [][\A id \in DOMAIN queue \cap DOMAIN queue' :
       (queue'[id].status = CANCELLED /\ queue[id].status # CANCELLED)
         => queue[id].status \in {PENDING, QUEUED}]_vars

\* C21: while the executor is stopped (from stop() until the next start()) no
\* record becomes QUEUED or EXECUTING and no attempt is started, and the
\* attempts in flight all end: the in-flight set empties unless start() is
\* called first.
C21_StopSemantics ==
  /\ [][~isRunning' =>
          /\ \A id \in DOMAIN queue' :
               queue'[id].status \in {QUEUED, EXECUTING} =>
                 id \in DOMAIN queue /\ queue'[id].status = queue[id].status
          /\ \A a \in BagToSet(attempts') :
               CopiesIn(a, attempts') > CopiesIn(a, attempts) => a.pc # "nonce"]_vars
  /\ [](~isRunning =>
         <>(isRunning \/ (attempts = EmptyBag /\ currentlyExecuting = {})))

\* C21 witness: the executor is stopped and its loop has exited; one record
\* was sent and is CONFIRMED, nothing is in flight, and an eligible PENDING
\* record was left alone.
C21_StoppedWithEligibleRecord ==
  /\ ~isRunning
  /\ loops = 0
  /\ ret.op = "stop"
  /\ attempts = EmptyBag
  /\ currentlyExecuting = {}
  /\ \E id \in DOMAIN queue : queue[id].status = CONFIRMED
  /\ getNext(queue, executionOrder, dependencyGraph) # NoId

\* C22: at most one processQueue loop is active per executor.
C22_SingleRunLoop == loops <= 1

\* C23: when a provider call of an attempt rejects, either the record becomes
\* PENDING and exactly one 'transaction:retry' notification is emitted, or it
\* becomes FAILED and exactly one 'transaction:failed' notification is
\* emitted; no other record and no other notification count changes, and the
\* run loop stays active.
C23_FailureContainment ==
  [][failures' = failures + 1 =>
       \E a \in BagToSet(attempts) :
         LET before == Notified(notified, a.createdAt)
             after == Notified(notified', a.createdAt)
         IN /\ a.pc \in ActivePc
            /\ CopiesIn(a, attempts') < CopiesIn(a, attempts)
            /\ a.id \in DOMAIN queue'
            /\ \/ /\ queue'[a.id].status = PENDING
                  /\ after = [before EXCEPT !.retry = @ + 1]
               \/ /\ queue'[a.id].status = FAILED
                  /\ after = [before EXCEPT !.failed = @ + 1, !.error = after.error]
                  /\ after.error # <<>>
            /\ \A o \in DOMAIN queue \ {a.id} : queue'[o] = queue[o]
            /\ \A o \in DOMAIN notified \ {a.createdAt} : notified'[o] = notified[o]
            /\ isRunning' = isRunning
            /\ loops' = loops
            /\ loops >= 1]_vars

\* C24: a record that is FAILED has a stored error, and whenever a record
\* becomes FAILED its stored error is the error carried by the
\* 'transaction:failed' notification emitted for it in that step.
C24_FailedHasStoredError ==
  /\ [](\A id \in DOMAIN queue : queue[id].status = FAILED => queue[id].error # <<>>)
  /\ [][\A id \in DOMAIN queue \cap DOMAIN queue' :
          (queue'[id].status = FAILED /\ queue[id].status # FAILED) =>
            LET before == Notified(notified, queue'[id].createdAt)
                after == Notified(notified', queue'[id].createdAt)
            IN /\ after.failed = before.failed + 1
               /\ after.error = queue'[id].error
               /\ queue'[id].error # <<>>]_vars

\* C27: with nonce management on, an intent without a nonce is given
\* max(pending count, tracked value) and the tracker becomes that nonce + 1;
\* an intent with a nonce (0 included) keeps it and the tracker is left as it
\* is; the intent itself is not modified.
C27_NonceAssignment ==
  retryCall.op = "prepareTransaction" =>
    LET call == retryCall
        tracked == IF call.tracked = <<>> THEN call.currentNonce ELSE call.tracked[1]
        larger == IF call.currentNonce >= tracked THEN call.currentNonce ELSE tracked
    IN /\ (call.options.nonceManager /\ call.config.nonce = <<>>) =>
            /\ call.preparedConfig.nonce = <<larger>>
            /\ call.nonceTracker = <<larger + 1>>
       /\ call.config.nonce # <<>> =>
            /\ call.preparedConfig.nonce = call.config.nonce
            /\ call.nonceTracker = call.tracked

\* C28: no two attempts that are in flight at the same time hold the same
\* nonce.
C28_InFlightNoncesDistinct ==
  \A a, b \in BagToSet(attempts) :
    (a.pc \in ActivePc /\ b.pc \in ActivePc /\ a.nonce # <<>> /\ a.nonce = b.nonce)
      => (a = b /\ CopiesIn(a, attempts) = 1)

\* C29: the transactions sent carry the nonces 0, 1, 2, ... with no gap: when
\* an executor with ceiling 1 sends a transaction, its nonce is the number of
\* transactions sent before it.
C29_NoSkippedNonce ==
  [][(maxConcurrent = 1 /\ txCount' = txCount + 1) =>
       \E a \in BagToSet(attempts) :
         /\ a.pc = "send"
         /\ CopiesIn(a, attempts') < CopiesIn(a, attempts)
         /\ a.nonce = <<txCount>>]_vars

C31_RetryCountBookkeeping ==
  /\ [](\A id \in DOMAIN queue : queue[id].retryCount <= queue[id].maxRetries)
  /\ [][\A id \in DOMAIN queue \cap DOMAIN queue' :
          LET before == Notified(notified, queue[id].createdAt)
              after == Notified(notified', queue[id].createdAt)
          IN (queue'[id].createdAt = queue[id].createdAt
                /\ after.retry = before.retry + 1)
               => queue'[id].retryCount = queue[id].retryCount + 1]_vars

\* C35: 'queue:empty' is emitted only when getNext returns no record and the
\* in-flight set is empty, and never while an execution attempt is in progress
\* or waiting in a retry delay.
C35_QueueEmptyOnlyWhenIdle ==
  emitQueueEmpty =>
    /\ getNext(queue, executionOrder, dependencyGraph) = NoId
    /\ currentlyExecuting = {}
    /\ attempts = EmptyBag

\* C36: a record's identifier is in currentlyExecuting exactly when the
\* record's status is EXECUTING or CONFIRMING, so that the executor's in-flight
\* set and getExecuting of the queue report the same records.
C36_InFlightSetMatchesStatus ==
  /\ \A id \in DOMAIN queue :
       id \in currentlyExecuting <=> queue[id].status \in {EXECUTING, CONFIRMING}
  /\ currentlyExecuting = {getExecuting[i] : i \in 1..Len(getExecuting)}

\* C38: no two executeTransaction calls of the same record are outstanding at
\* the same time, a call that waits out its retry delay included.
C38_NoOverlappingAttempts ==
  \A a, b \in BagToSet(attempts) :
    /\ CopiesIn(a, attempts) = 1
    /\ (a.id = b.id /\ a.createdAt = b.createdAt) => a = b

\* C37: for every record, the 'transaction:confirmed' notifications are
\* preceded by as many 'transaction:sent', these by as many
\* 'transaction:started' and these by as many 'transaction:queued'
\* notifications of the record; a record is notified as confirmed at most
\* once, and never as failed once it was notified as confirmed.
C37_NotificationOrder ==
  /\ [](\A oid \in DOMAIN notified :
          /\ notified[oid].confirmed <= 1
          /\ notified[oid].confirmed <= notified[oid].sent
          /\ notified[oid].sent <= notified[oid].started
          /\ notified[oid].started <= notified[oid].queued)
  /\ [][\A oid \in DOMAIN notified' :
          Notified(notified', oid).failed > Notified(notified, oid).failed
            => Notified(notified, oid).confirmed = 0]_vars

\* C40: once the last record was added, if the declared dependencies are
\* acyclic and refer only to records in the queue, every record is eventually
\* CONFIRMED and a pending waitForAllComplete without a timeout is eventually
\* resolved; waitForAllComplete resolves only when no record is PENDING, QUEUED,
\* EXECUTING or CONFIRMING, and its timeout rejects it without changing a
\* record.
C40_ProgressAndDrain ==
  /\ ( /\ now = MaxAdds
       /\ \A cycle \in SUBSET DOMAIN queue :
            (\A id \in cycle : queue[id].dependencies \cap cycle # {}) => cycle = {}
       /\ \A id \in DOMAIN queue : queue[id].dependencies \subseteq DOMAIN queue )
       ~> (\A id \in DOMAIN queue : queue[id].status = CONFIRMED)
  /\ ( /\ now = MaxAdds
       /\ \A cycle \in SUBSET DOMAIN queue :
            (\A id \in cycle : queue[id].dependencies \cap cycle # {}) => cycle = {}
       /\ \A id \in DOMAIN queue : queue[id].dependencies \subseteq DOMAIN queue
       /\ retryCall.op = "waitForAllComplete"
       /\ retryCall.state = "pending"
       /\ retryCall.timeout = 0 )
       ~> ( /\ retryCall.op = "waitForAllComplete"
            /\ retryCall.state = "resolved"
            /\ \A id \in DOMAIN queue : queue[id].status = CONFIRMED )
  /\ [][( /\ retryCall'.op = "waitForAllComplete"
          /\ retryCall'.state = "resolved"
          /\ IF retryCall.op = "none" THEN TRUE ELSE retryCall.state = "pending" )
          => \A id \in DOMAIN queue' :
               queue'[id].status \notin {PENDING, QUEUED, EXECUTING, CONFIRMING}]_vars
  /\ [][( /\ retryCall'.op = "waitForAllComplete"
          /\ retryCall'.state = "rejected"
          /\ IF retryCall.op = "none" THEN TRUE ELSE retryCall.state = "pending" )
          => UNCHANGED <<queueVars, executorVars>>]_vars

\* C3: the number of attempts that have started and have not ended in
\* CONFIRMED, FAILED or a retry is at most maxConcurrent.
C3_ConcurrencyCeiling ==
  LET active == {a \in BagToSet(attempts) : a.pc \in ActivePc}
  IN BagCardinality([a \in active |-> attempts[a]]) <= maxConcurrent

\* C5: a record is never retried automatically more often than its retry
\* ceiling: the 'transaction:retry' notifications of a record that was not
\* retried manually number at most maxRetries.
C5_RetryCeiling ==
  \A id \in DOMAIN queue :
    LET n == Notified(notified, queue[id].createdAt)
    IN n.manual = 0 => n.retry <= queue[id].maxRetries

(***************************************************************************)
(* Properties of RetryManager (SpecRetry).                                 *)
(***************************************************************************)
\* C7: an error whose message contains "insufficient funds", whatever else it
\* contains, is not retried on the first attempt.
C7_InsufficientFundsNotRetried ==
  ( /\ retryCall.op = "shouldRetry"
    /\ retryCall.done
    /\ retryCall.transaction.retryCount = 0
    /\ includes(toLowerCase(messageOf(retryCall.error)), kwInsufficientFunds) )
    => retryCall.result = FALSE

\* C8: shouldRetry is false at the ceiling; below it, false for user rejection
\* or denial, for insufficient funds or balance and for execution revert, true
\* for the other errors of a transient category, false for every other error.
C8_Classification ==
  (retryCall.op = "shouldRetry" /\ retryCall.done) =>
    LET m == toLowerCase(messageOf(retryCall.error))
        has(kw) == includes(m, kw)
        transient ==
          \/ has(kwNetwork) \/ has(kwTimeout) \/ has(kwConnection)
          \/ has(kwRateLimit) \/ has(kwTooManyRequests) \/ has(kw429)
          \/ has(kwNonceTooLow) \/ has(kwAlreadyKnown)
          \/ has(kwReplacementUnderpriced) \/ has(kwGasPriceTooLow)
          \/ has(kwPending) \/ has(kwQueued)
        permanent ==
          \/ has(kwUserRejected) \/ has(kwUserDenied)
          \/ has(kwInsufficientFunds) \/ has(kwInsufficientBalance)
          \/ has(kwRevert) \/ has(kwExecutionReverted)
    IN retryCall.result =
         IF retryCall.transaction.retryCount >= retryCall.transaction.maxRetries
         THEN FALSE
         ELSE IF permanent THEN FALSE
         ELSE transient

\* C9: with EXPONENTIAL_BACKOFF the delay lies between min(d, max) and
\* min(1.1 d, max) for d = base * multiplier^(n - 1); with base 100, multiplier
\* 2 and max 5000 it is in [90,110], [180,220], [360,440] for n = 1, 2, 3 and
\* equals 5000 for n = 10.
C9_ExponentialBackoffBounds ==
  ( /\ retryCall.op = "getRetryDelay"
    /\ retryCall.done
    /\ retryCall.options.strategy = EXPONENTIAL_BACKOFF ) =>
    LET o == retryCall.options
        n == retryCall.attemptNumber
        r == retryCall.result
        d == o.baseDelay * Pow(o.backoffMultiplier, n - 1)
    IN /\ Min(d, o.maxDelay) <= r
       /\ r <= Min((11 * d) \div 10, o.maxDelay)
       /\ (o.baseDelay = 100 /\ o.backoffMultiplier = 2 /\ o.maxDelay = 5000) =>
            /\ n = 1 => r \in 90..110
            /\ n = 2 => r \in 180..220
            /\ n = 3 => r \in 360..440
            /\ n = 10 => r = 5000

\* C9 witness: base 100, multiplier 2, max 5000, third attempt, with jitter:
\* the delay is above 400 and within [360,440].
C9_ThirdDelayWithJitter ==
  /\ retryCall.op = "getRetryDelay"
  /\ retryCall.done
  /\ retryCall.options.strategy = EXPONENTIAL_BACKOFF
  /\ retryCall.options.baseDelay = 100
  /\ retryCall.options.backoffMultiplier = 2
  /\ retryCall.options.maxDelay = 5000
  /\ retryCall.attemptNumber = 3
  /\ retryCall.random > 0
  /\ retryCall.result > 400
  /\ retryCall.result <= 440

\* C11: with LINEAR the delay is min(baseDelay * n, maxDelay) (base 100, max
\* 1000: 100, 200, 300 for n = 1, 2, 3 and 1000 for n = 10); with FIXED_DELAY
\* it is baseDelay for every n; with NONE it is 0 for every n.
C11_LinearFixedNone ==
  (retryCall.op = "getRetryDelay" /\ retryCall.done) =>
    LET o == retryCall.options
        n == retryCall.attemptNumber
        r == retryCall.result
    IN /\ o.strategy = LINEAR =>
            /\ r = (IF o.baseDelay * n <= o.maxDelay THEN o.baseDelay * n
                    ELSE o.maxDelay)
            /\ (o.baseDelay = 100 /\ o.maxDelay = 1000) =>
                 /\ n \in 1..3 => r = 100 * n
                 /\ n = 10 => r = 1000
       /\ o.strategy = FIXED_DELAY => r = o.baseDelay
       /\ o.strategy = NONE => r = 0

\* C11 witness: LINEAR with base 100 and max 1000 has returned 1000 for the
\* tenth attempt.
C11_LinearCappedAtTen ==
  /\ retryCall.op = "getRetryDelay"
  /\ retryCall.done
  /\ retryCall.options.strategy = LINEAR
  /\ retryCall.options.baseDelay = 100
  /\ retryCall.options.maxDelay = 1000
  /\ retryCall.attemptNumber = 10
  /\ retryCall.result = 1000

\* C10: for every strategy, getRetryDelay returns at most maxDelay.
C10_DelayClamp ==
  (retryCall.op = "getRetryDelay" /\ retryCall.done) =>
    retryCall.result <= retryCall.options.maxDelay

====
